---- MODULE Spec2Model ----
(***************************************************************************)
(* Model of SimPEG/Maps.py: the parameter maps (IdentityMap, ExpMap,       *)
(* Vertical1DMap, Mesh2Mesh, ActiveCells, ComplexMap), their composition   *)
(* (ComboMap and the * operator) and the array subclass Model that caches  *)
(* the transform of a vector under its mapping.                            *)
(*                                                                         *)
(* Numbers are integers.  A vector entry is a complex number, the pair     *)
(* <<re, im>>; a real entry has im = 0.  A vector is a sequence of         *)
(* entries.  A linear operator (scipy sparse matrix or linear operator)    *)
(* is a record [rows, cols, e] with e[i][j] the entry of row i, column j.  *)
(* Python's 0-based positions are written 1-based.                         *)
(***************************************************************************)
EXTENDS Integers, Sequences, FiniteSets, TLC

VARIABLES mesh, a, out, mdl

vars == <<mesh, a, out, mdl>>

-----------------------------------------------------------------------------
(* Bounds of the model. *)

\* meshes have at most MaxCells cells
MaxCells == 2
\* model entries are drawn from 0..MaxVal
MaxVal == 1
\* a ComboMap holds at most MaxMaps children (counted through nesting)
MaxMaps == 3
\* np.exp is applied to arguments up to MaxExpArg only (integer range)
MaxExpArg == 8
\* an index array given to ActiveCells holds at most MaxIdx indices
MaxIdx == 2
\* a cached property of one Model instance is read at most MaxReads times
MaxReads == 2

-----------------------------------------------------------------------------
(* Complex numbers, vectors and matrices (numpy / scipy.sparse). *)

Re(c) == c[1]
Im(c) == c[2]
Real(x) == <<x, 0>>
CAdd(c, d) == <<c[1] + d[1], c[2] + d[2]>>
CMul(c, d) == <<c[1] * d[1] - c[2] * d[2], c[1] * d[2] + c[2] * d[1]>>
\* x * 1j
TimesJ(c) == CMul(c, <<0, 1>>)

RECURSIVE Pow2(_)
Pow2(n) == IF n = 0 THEN 1 ELSE 2 * Pow2(n - 1)

\* np.exp on one entry.  The integer model keeps what the maps use of exp:
\* it is injective, exp(0) = 1 and exp(x) # x; the base is 2 instead of e.
ExpFn(c) == Real(Pow2(Re(c)))
InExpDomain(v) == \A k \in 1..Len(v) : Im(v[k]) = 0 /\ Re(v[k]) \in 0..MaxExpArg

\* the python slices v[:n] and v[n:]
Take(v, n) == SubSeq(v, 1, IF n < Len(v) THEN n ELSE Len(v))
Drop(v, n) == SubSeq(v, (IF n < Len(v) THEN n ELSE Len(v)) + 1, Len(v))

\* a function on 1..n as the sequence of its values (an array in memory)
Arr(f) == f \o <<>>

\* sp.identity(n)
SpIdentity(n) == [rows |-> n, cols |-> n,
     e |-> Arr([i \in 1..n |->
            Arr([j \in 1..n |-> IF i = j THEN Real(1) ELSE Real(0)])])]
\* Utils.sdiag(v)
Sdiag(v) == [rows |-> Len(v), cols |-> Len(v),
     e |-> Arr([i \in 1..Len(v) |->
            Arr([j \in 1..Len(v) |-> IF i = j THEN v[i] ELSE Real(0)])])]

\* the python scalar 1 that starts ComboMap.transformDeriv's accumulator
ScalarOne == [rows |-> -1, cols |-> -1, e |-> <<>>]

RECURSIVE DotFrom(_, _, _)
\* sum over j >= k of row[j] * col[j]; on operands of different lengths,
\* which scipy refuses (see Runs), the sum stops at the shorter one
DotFrom(row, col, k) ==
    IF k > Len(col) \/ k > Len(row) THEN Real(0)
    ELSE CAdd(CMul(row[k], col[k]), DotFrom(row, col, k + 1))

\* M * v for a vector v with Len(v) = M.cols
MatVec(M, v) == Arr([i \in 1..M.rows |-> DotFrom(M.e[i], v, 1)])

Column(M, j) == Arr([i \in 1..M.rows |-> M.e[i][j]])

\* A * B: the matrix product, and A * 1 = A
MatMul(A, B) ==
    IF B = ScalarOne THEN A
    ELSE [rows |-> A.rows, cols |-> B.cols,
     e |-> Arr([i \in 1..A.rows |->
            Arr([j \in 1..B.cols |-> DotFrom(A.e[i], Column(B, j), 1)])])]

\* u + w on same-length vectors
VecAdd(u, w) == Arr([k \in 1..Len(u) |-> CAdd(u[k], w[k])])

RECURSIVE Prod(_)
\* numpy .prod() of a sequence of integers
Prod(s) == IF Len(s) = 0 THEN 1 ELSE Head(s) * Prod(Tail(s))

RECURSIVE CountTrue(_)
\* numpy .sum() of a boolean array
CountTrue(s) == IF Len(s) = 0 THEN 0
                ELSE (IF Head(s) THEN 1 ELSE 0) + CountTrue(Tail(s))

Vals == 0..MaxVal
\* the real vectors of length n over Vals
Vectors(n) == [1..n -> {Real(x) : x \in Vals}]

-----------------------------------------------------------------------------
(* The mesh: what the maps read of it (nC, vnC, dim). *)

Meshes == {[vnC |-> <<x, y>>] : <<x, y>> \in
              {q \in (1..MaxCells) \X (1..MaxCells) : q[1] * q[2] <= MaxCells}}

MeshDim(msh) == Len(msh.vnC)
MeshNC(msh) == Prod(msh.vnC)

NoMesh == [vnC |-> <<>>]

-----------------------------------------------------------------------------
(* Map objects.  Every object is a record of the same shape; the fields a  *)
(* class does not set keep the values of Blank.  kind is the class; the    *)
(* value None, a NonLinearMap and a class object (not an instance) are     *)
(* records of the same shape so that isinstance can be asked of them.      *)

NoMatrix == [rows |-> 0, cols |-> 0, e |-> <<>>]

Blank == [kind |-> "None", cls |-> "", mesh |-> NoMesh, mesh2 |-> NoMesh,
          maps |-> <<>>, P |-> NoMatrix, indActive |-> <<>>,
          indInactive |-> <<>>, valInactive |-> <<>>, nC |-> 0, nPf |-> 0]

NoMap == Blank

\* the classes derived from IdentityMap
MapKinds == {"IdentityMap", "ExpMap", "Vertical1DMap", "Mesh2Mesh",
             "ActiveCells", "ComboMap", "ComplexMap"}

\* isinstance(x, IdentityMap)
IsIdentityMap(x) == x.kind \in MapKinds
\* isinstance(x, ComboMap)
IsComboMap(x) == x.kind = "ComboMap"

\* a class object, as ComboMap's list may hold
ClassObj(c) == [Blank EXCEPT !.kind = "type", !.cls = c]

\* IdentityMap(mesh)
IdentityMapInit(msh) == [Blank EXCEPT !.kind = "IdentityMap", !.mesh = msh]
\* ExpMap(mesh)
ExpMapInit(msh) == [Blank EXCEPT !.kind = "ExpMap", !.mesh = msh]
\* Vertical1DMap(mesh)
Vertical1DMapInit(msh) == [Blank EXCEPT !.kind = "Vertical1DMap", !.mesh = msh]
\* NonLinearMap(mesh): not derived from IdentityMap, has an nP
NonLinearMapInit(msh) == [Blank EXCEPT !.kind = "NonLinearMap", !.mesh = msh]

\* Mesh2Mesh([mesh, mesh2]); PP is what mesh2.getInterpolationMat returns,
\* an operator with mesh.nC rows and mesh2.nC columns
Mesh2MeshInit(msh, msh2, PP) ==
    [Blank EXCEPT !.kind = "Mesh2Mesh", !.mesh = msh, !.mesh2 = msh2, !.P = PP]

\* the interpolation operators of the model: each cell centre of mesh takes
\* the value of one cell of mesh2, or zero outside
InterpMats(msh, msh2) ==
    {[rows |-> MeshNC(msh), cols |-> MeshNC(msh2),
     e |-> Arr([i \in 1..MeshNC(msh) |->
            Arr([j \in 1..MeshNC(msh2) |->
                  IF i + shift = j
                  THEN Real(1)
                  ELSE Real(0)])])] :
       shift \in {0, 1}}

\* an optional argument: <<>> is None, <<x>> is the value x
Given(opt) == Len(opt) = 1
\* python's  opt or dflt  for an integer option
OrElse(opt, dflt) == IF Given(opt) /\ opt[1] # 0 THEN opt[1] ELSE dflt

\* ComplexMap.__init__: the assert on nP
ComplexMapInitRaises(msh, nPopt) == Given(nPopt) /\ nPopt[1] % 2 # 0
ComplexMapInit(msh, nPopt) ==
    [Blank EXCEPT !.kind = "ComplexMap", !.mesh = msh,
                  !.nPf = OrElse(nPopt, MeshNC(msh) * 2)]

\* z = np.zeros(n, dtype=bool); z[ind] = True; ind is an index array
\* (dtype "int", 1-based here) or a boolean mask of length n (dtype "bool")
SetTrueAt(n, ind) ==
    Arr([k \in 1..n |->
          IF ind.dtype = "bool"
          THEN ind.data[k]
          ELSE \E q \in 1..Len(ind.data) : ind.data[q] = k])

RECURSIVE NonZero(_, _)
\* np.nonzero(mask)[0] from position k on: the true positions, ascending
NonZero(mask, k) ==
    IF k > Len(mask) THEN <<>>
    ELSE (IF mask[k] THEN <<k>> ELSE <<>>) \o NonZero(mask, k + 1)

\* a faulty variant: valInactive is not zeroed at the active cells
ActiveCellsInitKeepsFill(msh, ind, val, nCopt) ==
    LET n    == OrElse(nCopt, MeshNC(msh))
        act  == SetTrueAt(n, ind)
        full == IF val.isScalar THEN Arr([k \in 1..n |-> val.data[1]])
                ELSE val.data
        inds == NonZero(act, 1)
    IN  [Blank EXCEPT !.kind = "ActiveCells", !.mesh = msh, !.nC = n,
                      !.indActive = act,
                      !.indInactive = Arr([k \in 1..n |-> ~act[k]]),
                      !.valInactive = full,
                      !.P = [rows |-> n, cols |-> CountTrue(act),
     e |-> Arr([i \in 1..n |->
            Arr([j \in 1..CountTrue(act) |->
                  IF inds[j] = i
                  THEN Real(1)
                  ELSE Real(0)])])]]

\* ActiveCells.__init__(mesh, indActive, valInactive, nC)
\* val is [isScalar, data]: a scalar <<x>> (float(x) is then taken) or a
\* vector of length nC
ActiveCellsInit(msh, ind, val, nCopt) ==
    LET n    == OrElse(nCopt, MeshNC(msh))
        \* ind.dtype is a numpy dtype object, never the python type bool:
        \* the branch is always taken
        act  == SetTrueAt(n, ind)
        full == IF val.isScalar THEN Arr([k \in 1..n |-> val.data[1]])
                ELSE val.data
        fill == Arr([k \in 1..n |-> IF act[k] THEN Real(0) ELSE full[k]])
        inds == NonZero(act, 1)
    IN  [Blank EXCEPT !.kind = "ActiveCells", !.mesh = msh, !.nC = n,
                      !.indActive = act,
                      !.indInactive = Arr([k \in 1..n |-> ~act[k]]),
                      !.valInactive = fill,
                      !.P = [rows |-> n, cols |-> CountTrue(act),
     e |-> Arr([i \in 1..n |->
            Arr([j \in 1..CountTrue(act) |->
                  IF inds[j] = i
                  THEN Real(1)
                  ELSE Real(0)])])]]

\* the classes ComboMap.__init__ can instantiate as cls(mesh)
InstantiableClasses == {"IdentityMap", "ExpMap", "Vertical1DMap", "ComplexMap"}

\* m(mesh, **kwargs) for a class object m
Instantiate(c, msh) ==
    CASE c = "IdentityMap"   -> IdentityMapInit(msh)
      [] c = "ExpMap"        -> ExpMapInit(msh)
      [] c = "Vertical1DMap" -> Vertical1DMapInit(msh)
      [] c = "ComplexMap"    -> ComplexMapInit(msh, <<>>)

\* ComboMap.__init__(mesh, maps): instances are kept, classes instantiated
ComboMapInit(msh, lst) ==
    [Blank EXCEPT !.kind = "ComboMap", !.mesh = msh,
                  !.maps = Arr([k \in 1..Len(lst) |->
                        IF ~IsIdentityMap(lst[k])
                        THEN Instantiate(lst[k].cls, msh)
                        ELSE lst[k]])]

-----------------------------------------------------------------------------
(* nP and shape. *)

RECURSIVE NPRaises(_)
\* whether reading x.nP raises: a ComboMap with no children (maps[-1]),
\* or an object with no nP at all
NPRaises(x) ==
    CASE x.kind = "ComboMap" ->
           Len(x.maps) = 0 \/ NPRaises(x.maps[Len(x.maps)])
      [] x.kind \in {"None", "type"} -> TRUE
      [] OTHER -> FALSE

RECURSIVE nP(_)
\* the nP property of each class, where it does not raise
nP(x) ==
    CASE x.kind = "Vertical1DMap" -> x.mesh.vnC[MeshDim(x.mesh)]
      [] x.kind = "Mesh2Mesh"     -> MeshNC(x.mesh2)
      [] x.kind = "ActiveCells"   -> CountTrue(x.indActive)
      [] x.kind = "ComboMap"      -> nP(x.maps[Len(x.maps)])
      [] x.kind = "ComplexMap"    -> x.nPf
      [] OTHER                    -> MeshNC(x.mesh)

\* the shape property: IdentityMap's, inherited by every class but ComplexMap
Shape(x) ==
    IF x.kind = "ComplexMap" THEN <<nP(x) \div 2, nP(x)>>
    ELSE <<MeshNC(x.mesh), nP(x)>>

-----------------------------------------------------------------------------
(* transform, transformDeriv, transformInverse. *)

\* numpy broadcasting of u + w for 1-d arrays
BroadcastRaises(u, w) == Len(u) # Len(w) /\ Len(u) # 1 /\ Len(w) # 1
BroadcastAdd(u, w) ==
    LET n == IF Len(u) = Len(w) THEN Len(u)
             ELSE IF Len(u) = 1 THEN Len(w) ELSE Len(u)
    IN  Arr([k \in 1..n |->
          CAdd(u[IF Len(u) = 1
          THEN 1
          ELSE k], w[IF Len(w) = 1
          THEN 1
          ELSE k])])

\* self.mesh.vnC[:self.mesh.dim-1].prod()
RepNum(x) == Prod(SubSeq(x.mesh.vnC, 1, MeshDim(x.mesh) - 1))

\* ComplexMap.transform: the split is at mesh.nC
ComplexTransform(x, m) ==
    LET nC == MeshNC(x.mesh)
    IN  BroadcastAdd(Take(m, nC),
                     Arr([k \in 1..(Len(Drop(m, nC))) |-> TimesJ(Drop(m, nC)[k])]))
ComplexTransformRaises(x, m) ==
    BroadcastRaises(Take(m, MeshNC(x.mesh)), Drop(m, MeshNC(x.mesh)))

\* ComplexMap.transformDeriv: the operator of shape (nC, 2 nC), nC = nP / 2,
\* whose forward product is v[:nC] + v[nC:] * 1j
ComplexTransformDeriv(x, m) ==
    LET nC == nP(x) \div 2
    IN  [rows |-> nC, cols |-> nC * 2,
     e |-> Arr([i \in 1..nC |->
            Arr([j \in 1..(nC * 2) |->
                  IF j = i
                  THEN Real(1)
                  ELSE IF j = i + nC
                  THEN <<0, 1>>
                  ELSE Real(0)])])]

\* Vertical1DMap.transform: m.repeat(repNum)
Vertical1DTransform(x, m) ==
    Arr([k \in 1..(Len(m) * RepNum(x)) |-> m[((k - 1) \div RepNum(x)) + 1]])

\* Vertical1DMap.transformDeriv: kron(identity(nP), ones column of repNum)
Vertical1DTransformDeriv(x, m) ==
    [rows |-> nP(x) * RepNum(x), cols |-> nP(x),
     e |-> Arr([i \in 1..(nP(x) * RepNum(x)) |->
            Arr([j \in 1..nP(x) |->
                  IF ((i - 1) \div RepNum(x)) + 1 = j
                  THEN Real(1)
                  ELSE Real(0)])])]

\* ActiveCells.transform: P * m + valInactive
ActiveCellsTransform(x, m) == VecAdd(MatVec(x.P, m), x.valInactive)

RECURSIVE Transform(_, _)
RECURSIVE ComboTransformLoop(_, _, _)
RECURSIVE TransformDeriv(_, _)
RECURSIVE ComboTransformDerivLoop(_, _, _, _)

RECURSIVE ComboTransformLoopSkipsFirst(_, _, _)
\* a faulty variant: the loop stops before maps[0]
ComboTransformLoopSkipsFirst(mps, i, m) ==
    IF i <= 1 THEN m
    ELSE ComboTransformLoopSkipsFirst(mps, i - 1, Transform(mps[i], m))

\* the loop of ComboMap.transform, at child i of reversed(self.maps)
ComboTransformLoop(mps, i, m) ==
    IF i = 0 THEN m
    ELSE ComboTransformLoop(mps, i - 1, Transform(mps[i], m))

\* ComboMap.transform
ComboTransform(x, m) == ComboTransformLoop(x.maps, Len(x.maps), m)

\* x.transform(m)
Transform(x, m) ==
    CASE x.kind = "ExpMap"        -> Arr([k \in 1..Len(m) |-> ExpFn(m[k])])
      [] x.kind = "Vertical1DMap" -> Vertical1DTransform(x, m)
      [] x.kind = "Mesh2Mesh"     -> MatVec(x.P, m)
      [] x.kind = "ActiveCells"   -> ActiveCellsTransform(x, m)
      [] x.kind = "ComboMap"      -> ComboTransform(x, m)
      [] x.kind = "ComplexMap"    -> ComplexTransform(x, m)
      [] OTHER                    -> m

RECURSIVE ComboTransformDerivLoopAtM(_, _, _, _)
\* a faulty variant: every child's derivative is taken at m, mi is not advanced
ComboTransformDerivLoopAtM(mps, i, deriv, mi) ==
    IF i = 0 THEN deriv
    ELSE ComboTransformDerivLoopAtM(mps, i - 1,
                                    MatMul(TransformDeriv(mps[i], mi), deriv),
                                    mi)

\* the loop of ComboMap.transformDeriv, at child i of reversed(self.maps)
ComboTransformDerivLoop(mps, i, deriv, mi) ==
    IF i = 0 THEN deriv
    ELSE ComboTransformDerivLoop(mps, i - 1,
                                 MatMul(TransformDeriv(mps[i], mi), deriv),
                                 Transform(mps[i], mi))

\* ComboMap.transformDeriv
ComboTransformDeriv(x, m) ==
    ComboTransformDerivLoop(x.maps, Len(x.maps), ScalarOne, m)

\* x.transformDeriv(m)
TransformDeriv(x, m) ==
    CASE x.kind = "ExpMap"        -> Sdiag(Arr([k \in 1..Len(m) |-> ExpFn(m[k])]))
      [] x.kind = "Vertical1DMap" -> Vertical1DTransformDeriv(x, m)
      [] x.kind = "Mesh2Mesh"     -> x.P
      [] x.kind = "ActiveCells"   -> x.P
      [] x.kind = "ComboMap"      -> ComboTransformDeriv(x, m)
      [] x.kind = "ComplexMap"    -> ComplexTransformDeriv(x, m)
      [] OTHER                    -> SpIdentity(Len(m))

\* np.log on one entry that is a power of the base
LogFn(c) == Real(CHOOSE n \in 0..MaxExpArg : Pow2(n) = Re(c))
InLogDomain(v) ==
    \A k \in 1..Len(v) : Im(v[k]) = 0 /\ \E n \in 0..MaxExpArg : Pow2(n) = Re(v[k])

\* a faulty variant: IdentityMap's transformInverse returns instead of raising
TransformInverseReturns(x) == x.kind \notin {"ExpMap", "ComplexMap", "IdentityMap"}

\* x.transformInverse(D): whether the call raises NotImplementedError
\* (IdentityMap's method, inherited by every class but ExpMap and ComplexMap)
TransformInverseRaises(x) == x.kind \notin {"ExpMap", "ComplexMap"}

\* x.transformInverse(D) where it returns a vector (ExpMap)
TransformInverse(x, D) == Arr([k \in 1..Len(D) |-> LogFn(D[k])])

-----------------------------------------------------------------------------
(* The inputs on which a chain runs: no numpy or scipy shape error.        *)

RECURSIVE Runs(_, _)
RECURSIVE ComboRuns(_, _, _, _)

\* every child accepts what it is given and the operator product is defined
ComboRuns(mps, i, deriv, mi) ==
    IF i = 0 THEN TRUE
    ELSE /\ Runs(mps[i], mi)
         /\ deriv = ScalarOne \/ TransformDeriv(mps[i], mi).cols = deriv.rows
         /\ ComboRuns(mps, i - 1, MatMul(TransformDeriv(mps[i], mi), deriv),
                      Transform(mps[i], mi))

Runs(x, m) ==
    CASE x.kind = "ExpMap"        -> InExpDomain(m)
      [] x.kind = "Vertical1DMap" -> Len(m) = nP(x)
      [] x.kind = "Mesh2Mesh"     -> Len(m) = x.P.cols
      [] x.kind = "ActiveCells"   -> Len(m) = x.P.cols
      [] x.kind = "ComboMap"      -> ComboRuns(x.maps, Len(x.maps), ScalarOne, m)
      [] x.kind = "ComplexMap"    -> Len(m) = nP(x) /\ ~ComplexTransformRaises(x, m)
      [] OTHER                    -> TRUE

-----------------------------------------------------------------------------
(* The composition operator. *)

\* IdentityMap.__mul__(self, val) for a map val
IdentityMapMul(self, val) ==
    IF IsComboMap(val) THEN ComboMapInit(self.mesh, <<self>> \o val.maps)
    ELSE ComboMapInit(self.mesh, <<self, val>>)

\* a faulty variant: the operands are kept as two children, not flattened
ComboMapMulNests(self, val) == ComboMapInit(self.mesh, <<self, val>>)

\* ComboMap.__mul__(self, val) for a map val
ComboMapMul(self, val) ==
    IF IsComboMap(val) THEN ComboMapInit(self.mesh, self.maps \o val.maps)
    ELSE ComboMapInit(self.mesh, self.maps \o <<val>>)

\* self * val for maps: python picks the method of self's class
Mul(self, val) ==
    IF IsComboMap(self) THEN ComboMapMul(self, val) ELSE IdentityMapMul(self, val)

\* self * val for an np.ndarray val: both __mul__ return self.transform(val)
MulArray(self, val) == Transform(self, val)

RECURSIVE Size(_)
RECURSIVE SizeSeq(_)
\* the number of map objects in x, nested ComboMaps and their children included
Size(x) == IF IsComboMap(x) THEN 1 + SizeSeq(x.maps) ELSE 1
SizeSeq(s) == IF Len(s) = 0 THEN 0 ELSE Size(Head(s)) + SizeSeq(Tail(s))

-----------------------------------------------------------------------------
(* The state: the mesh, the map object a, the bound Model instance mdl,    *)
(* and out, the record of the last call: its operands and what it          *)
(* returned or raised.                                                     *)

OutBlank == [op |-> "none", left |-> NoMap, right |-> NoMap, arg |-> <<>>,
             raises |-> "", vec |-> <<>>, mat |-> NoMatrix, map |-> NoMap,
             shape |-> <<>>, ind |-> <<>>, val |-> <<>>, nCopt |-> <<>>,
             nPopt |-> <<>>]

NoModel == [exists |-> FALSE, vec |-> <<>>, mapping |-> NoMap,
            tcache |-> <<>>, dcache |-> <<>>,
            tcalls |-> 0, dcalls |-> 0, treads |-> 0, dreads |-> 0]

Init ==
    /\ mesh \in Meshes
    /\ a = NoMap
    /\ out = OutBlank
    /\ mdl = NoModel

\* the sequences over S of length at most n
SeqsUpTo(S, n) == UNION {[1..k -> S] : k \in 0..n}

\* the maps chains are built from
ChainMaps(msh) ==
    {IdentityMapInit(msh), ExpMapInit(msh), Vertical1DMapInit(msh),
     ActiveCellsInit(msh, [dtype |-> "int", data |-> <<1>>],
                     [isScalar |-> TRUE, data |-> <<Real(1)>>], <<>>)}

\* the plain maps a session constructs
PlainMaps(msh) ==
    ChainMaps(msh)
    \cup {ComplexMapInit(msh, nPopt) : nPopt \in {<<>>, <<2>>, <<4>>}}
    \cup {ActiveCellsInit(msh, [dtype |-> "int", data |-> <<1>>],
                          [isScalar |-> TRUE, data |-> <<Real(1)>>],
                          <<MeshNC(msh) + 1>>)}
    \cup UNION {{Mesh2MeshInit(msh, msh2, PP) : PP \in InterpMats(msh, msh2)} :
                  msh2 \in Meshes}

-----------------------------------------------------------------------------
(* Building maps: the constructors and the composition operator.           *)

\* the operands of a composition: plain maps and flat chains of two
Operands(msh) ==
    {ExpMapInit(msh), Vertical1DMapInit(msh)}
    \cup {ComboMapInit(msh, <<p, q>>) :
            p, q \in {ExpMapInit(msh), Vertical1DMapInit(msh)}}

\* what a list given to ComboMap may hold: instances, classes, the map a
ListItems ==
    {ExpMapInit(mesh)} \cup {ClassObj(c) : c \in InstantiableClasses}
    \cup (IF IsIdentityMap(a) /\ \A k \in 1..Len(a.maps) : ~IsComboMap(a.maps[k])
          THEN {a} ELSE {})

Lists == {<<>>} \cup {<<p>> : p \in ListItems}
         \cup {<<p, q>> : p, q \in ListItems}

\* a = SomeMap(...)
Construct(p) ==
    /\ a' = p
    /\ out' = [OutBlank EXCEPT !.op = "construct", !.map = p]
    /\ UNCHANGED <<mesh, mdl>>

\* a = ComboMap(mesh, lst)
ComboInitAct(lst) ==
    /\ SizeSeq(lst) <= MaxMaps
    /\ a' = ComboMapInit(mesh, lst)
    /\ out' = [OutBlank EXCEPT !.op = "combo", !.arg = lst, !.map = a']
    /\ UNCHANGED <<mesh, mdl>>

\* a = a * v
MulRight(v) ==
    /\ IsIdentityMap(a)
    /\ SizeSeq(Mul(a, v).maps) <= MaxMaps
    /\ a' = Mul(a, v)
    /\ out' = [OutBlank EXCEPT !.op = "mul", !.left = a, !.right = v, !.map = a']
    /\ UNCHANGED <<mesh, mdl>>

\* a = v * a
MulLeft(v) ==
    /\ IsIdentityMap(a)
    /\ SizeSeq(Mul(v, a).maps) <= MaxMaps
    /\ a' = Mul(v, a)
    /\ out' = [OutBlank EXCEPT !.op = "mul", !.left = v, !.right = a, !.map = a']
    /\ UNCHANGED <<mesh, mdl>>

NextCompose ==
    \/ \E p \in PlainMaps(mesh) : Construct(p)
    \/ \E lst \in Lists : ComboInitAct(lst)
    \/ \E v \in Operands(mesh) : MulRight(v)
    \/ \E v \in Operands(mesh) : MulLeft(v)

SpecCompose == Init /\ [][NextCompose]_vars

-----------------------------------------------------------------------------
(* Evaluating maps: a session takes one map and asks one thing of it.      *)

\* the maps evaluated: the plain maps, the flat chains, chains with a
\* nested ComboMap
EvalMaps(msh) ==
    PlainMaps(msh)
    \cup {ComboMapInit(msh, lst) : lst \in SeqsUpTo(ChainMaps(msh), MaxMaps)}
    \cup {ComboMapInit(msh, <<ComboMapInit(msh, <<p, q>>), r>>) :
            p, q, r \in ChainMaps(msh)}
    \cup {ComboMapInit(msh, <<r, ComboMapInit(msh, <<p, q>>)>>) :
            p, q, r \in ChainMaps(msh)}

\* the models a map is asked about: length nP, and the chain runs on them
Models(x) == IF NPRaises(x) THEN {} ELSE {m \in Vectors(nP(x)) : Runs(x, m)}

\* nothing built yet
Fresh == out.op = "none"
\* the map is built and nothing asked of it yet
Built == out.op \in {"construct", "mul"}

\* a = x, one of the maps evaluated
Build(x) ==
    /\ Fresh
    /\ a' = x
    /\ out' = [OutBlank EXCEPT !.op = "construct", !.map = x]
    /\ UNCHANGED <<mesh, mdl>>

\* a = p * q for two plain maps
BuildMul(p, q) ==
    /\ Fresh
    /\ a' = Mul(p, q)
    /\ out' = [OutBlank EXCEPT !.op = "mul", !.left = p, !.right = q, !.map = a']
    /\ UNCHANGED <<mesh, mdl>>

\* a * m for a raw vector m
MulVec(m) ==
    /\ Built
    /\ out' = [OutBlank EXCEPT !.op = "mulvec", !.left = a, !.arg = m,
                               !.vec = MulArray(a, m)]
    /\ UNCHANGED <<mesh, a, mdl>>

\* a.transform(m)
DoTransform(m) ==
    /\ Built
    /\ out' = [OutBlank EXCEPT !.op = "transform", !.left = a, !.arg = m,
                               !.vec = Transform(a, m)]
    /\ UNCHANGED <<mesh, a, mdl>>

\* a.transformDeriv(m)
DoTransformDeriv(m) ==
    /\ Built
    /\ out' = [OutBlank EXCEPT !.op = "transformDeriv", !.left = a, !.arg = m,
                               !.mat = TransformDeriv(a, m)]
    /\ UNCHANGED <<mesh, a, mdl>>

\* a.transformInverse(D)
DoTransformInverse(D) ==
    /\ Built
    /\ a.kind = "ExpMap" => InLogDomain(D)
    /\ out' = [OutBlank EXCEPT
                 !.op = "transformInverse", !.left = a, !.arg = D,
                 !.raises = IF TransformInverseRaises(a)
                            THEN "NotImplementedError" ELSE "",
                 !.vec = IF a.kind = "ExpMap" THEN TransformInverse(a, D)
                         ELSE <<>>,
                 !.mat = IF a.kind = "ComplexMap" THEN TransformDeriv(a, D)
                         ELSE NoMatrix]
    /\ UNCHANGED <<mesh, a, mdl>>

\* a.shape
DoShape ==
    /\ Built
    /\ ~NPRaises(a)
    /\ out' = [OutBlank EXCEPT !.op = "shape", !.left = a, !.shape = Shape(a)]
    /\ UNCHANGED <<mesh, a, mdl>>

NextEval ==
    \/ Fresh /\ \E x \in EvalMaps(mesh) : Build(x)
    \/ Fresh /\ \E p, q \in PlainMaps(mesh) : BuildMul(p, q)
    \/ Built /\ \E m \in Models(a) : MulVec(m)
    \/ Built /\ \E m \in Models(a) : DoTransform(m)
    \/ Built /\ \E m \in Models(a) : DoTransformDeriv(m)
    \/ Built /\ \E D \in Models(a) : DoTransformInverse(D)
    \/ DoShape

SpecEval == Init /\ [][NextEval]_vars

-----------------------------------------------------------------------------
(* Composition: the child list of a product (C3, C10).                     *)

\* the child list of an operand, a plain map counting as a list of one
Children(x) == IF IsComboMap(x) THEN x.maps ELSE <<x>>
HasComboChild(x) == \E k \in 1..Len(Children(x)) : IsComboMap(Children(x)[k])
\* the state after a product one of whose operands is a ComboMap
ComboProduct == out.op = "mul" /\ (IsComboMap(out.left) \/ IsComboMap(out.right))

\* C3 as stated: a product with a ComboMap operand is one ComboMap, none of
\* whose children is a ComboMap, and whose children are the left operand's
\* followed by the right operand's.
C3_NeverNested ==
    ComboProduct =>
        /\ IsComboMap(out.map)
        /\ ~HasComboChild(out.map)
        /\ out.map.maps = Children(out.left) \o Children(out.right)

\* C3 amended: a product with a ComboMap operand is one ComboMap whose
\* children are the left operand's children followed by the right operand's,
\* so its length is the sum of theirs and the operands themselves never
\* become children; it has a ComboMap child only where an operand had one.
\* In particular [A, B] * C and A * [B, C] both give [A, B, C].
C3_Flattening ==
    ComboProduct =>
        /\ IsComboMap(out.map)
        /\ out.map.maps = Children(out.left) \o Children(out.right)
        /\ Len(out.map.maps) = Len(Children(out.left)) + Len(Children(out.right))
        /\ (~HasComboChild(out.left) /\ ~HasComboChild(out.right))
              => ~HasComboChild(out.map)

C3_Witness ==
    /\ out.op = "mul" /\ IsComboMap(out.left) /\ IsComboMap(out.right)
    /\ Len(out.left.maps) = 1 /\ Len(out.right.maps) = 2
    /\ Len(out.map.maps) = 3 /\ ~HasComboChild(out.map)

\* C10: every ComboMap has at least one child and an nP, that of its last
\* child.
C10_NonEmpty ==
    IsComboMap(a) =>
        /\ Len(a.maps) >= 1
        /\ ~NPRaises(a)
        /\ nP(a) = nP(a.maps[Len(a.maps)])

-----------------------------------------------------------------------------
(* Evaluation: the order of a chain and its chain rule (C1, C2), the       *)
(* identity map (C7), the shape of the derivative (C9).                    *)

RECURSIVE EvalPoint(_, _, _)
\* x_i: the model m for the last child, else what child i+1 makes of x_(i+1)
EvalPoint(mps, i, m) ==
    IF i = Len(mps) THEN m
    ELSE Transform(mps[i + 1], EvalPoint(mps, i + 1, m))

\* D_i: child i's derivative at x_i
ChildDeriv(mps, i, m) == TransformDeriv(mps[i], EvalPoint(mps, i, m))

RECURSIVE OrderedProduct(_, _, _)
\* D_i * D_(i+1) * ... * D_n
OrderedProduct(mps, i, m) ==
    IF i = Len(mps) THEN ChildDeriv(mps, i, m)
    ELSE MatMul(ChildDeriv(mps, i, m), OrderedProduct(mps, i + 1, m))

\* C1: the derivative of a ComboMap with n >= 1 children at m is the ordered
\* product D_1 * ... * D_n, each D_i taken at the output of the children
\* applied before child i; for a product A * B of two plain maps it is
\* A.transformDeriv(B.transform(m)) * B.transformDeriv(m).
C1_ChainRule ==
    /\ (out.op = "transformDeriv" /\ IsComboMap(out.left)
          /\ Len(out.left.maps) >= 1)
         => out.mat = OrderedProduct(out.left.maps, 1, out.arg)
    /\ out.op = "mul" =>
         \A m \in Models(out.map) :
            TransformDeriv(out.map, m) =
               MatMul(TransformDeriv(out.left, Transform(out.right, m)),
                      TransformDeriv(out.right, m))

\* a chain of three whose first child's derivative depends on where it is
\* taken, and is taken elsewhere than at m
C1_Witness ==
    /\ out.op = "transformDeriv" /\ IsComboMap(out.left)
    /\ Len(out.left.maps) = 3
    /\ out.left.maps[1].kind = "ExpMap"
    /\ EvalPoint(out.left.maps, 1, out.arg) # out.arg
    /\ TransformDeriv(out.left.maps[1], out.arg) # ChildDeriv(out.left.maps, 1, out.arg)

RECURSIVE NestedApply(_, _, _)
\* maps[i].transform(maps[i+1].transform(... maps[n].transform(m) ...))
NestedApply(mps, i, m) ==
    IF i > Len(mps) THEN m
    ELSE Transform(mps[i], NestedApply(mps, i + 1, m))

\* C2: a ComboMap's transform applies the children from last to first, the
\* composition operator on a raw vector gives the same value, and the
\* product A * B of two plain maps sends m to A.transform(B.transform(m)).
C2_LastToFirst ==
    /\ (out.op \in {"transform", "mulvec"} /\ IsComboMap(out.left))
         => out.vec = NestedApply(out.left.maps, 1, out.arg)
    /\ out.op = "mul" =>
         \A m \in Models(out.map) :
            /\ Transform(out.map, m) = Transform(out.left, Transform(out.right, m))
            /\ MulArray(out.map, m) = Transform(out.map, m)

\* a chain of three on which the order shows: the first child alone would
\* give another value
C2_Witness ==
    /\ out.op = "mulvec" /\ IsComboMap(out.left)
    /\ Len(out.left.maps) = 3
    /\ out.vec # out.arg
    /\ out.vec # Transform(out.left.maps[3], Transform(out.left.maps[2],
                           Transform(out.left.maps[1], out.arg)))

IsIdentityOperator(M, n) ==
    /\ M.rows = n /\ M.cols = n
    /\ \A i, j \in 1..n : M.e[i][j] = IF i = j THEN Real(1) ELSE Real(0)

C9_Shape ==
    /\ out.op = "transformDeriv" =>
         /\ out.mat.rows = Len(Transform(out.left, out.arg))
         /\ out.mat.cols = nP(out.left)
    /\ out.op = "shape" =>
         \A m \in Models(out.left) :
            out.shape = <<Len(Transform(out.left, m)), nP(out.left)>>

-----------------------------------------------------------------------------
(* ActiveCells under every activity specification and fill-in value (C8).  *)

\* the activity specifications over n cells: index arrays, boolean masks
IndSpecs(n) ==
    {[dtype |-> "int", data |-> s] : s \in SeqsUpTo(1..n, MaxIdx)}
    \cup {[dtype |-> "bool", data |-> f] : f \in [1..n -> BOOLEAN]}

\* fill-in values, apart from the model's entries
FillVals == {0, MaxVal + 5}

\* the fill-in arguments over n cells: a scalar, a vector
ValSpecs(n) ==
    {[isScalar |-> TRUE, data |-> <<Real(x)>>] : x \in FillVals}
    \cup {[isScalar |-> FALSE, data |-> v] :
            v \in [1..n -> {Real(x) : x \in FillVals}]}

\* the nC arguments: None, 0, a cell count other than the mesh's
NCOpts == {<<>>, <<0>>, <<MeshNC(mesh) + 1>>}

\* a = ActiveCells(mesh, ind, val, nC)
NewActiveCells(ind, val, nCopt) ==
    /\ Fresh
    /\ a' = ActiveCellsInit(mesh, ind, val, nCopt)
    /\ out' = [OutBlank EXCEPT !.op = "construct", !.map = a', !.ind = ind,
                               !.val = val, !.nCopt = nCopt]
    /\ UNCHANGED <<mesh, mdl>>

\* a.transform(m), the constructor's arguments kept in out
ActiveTransform(m) ==
    /\ Built
    /\ out' = [out EXCEPT !.op = "activeTransform", !.left = a, !.arg = m,
                          !.vec = Transform(a, m)]
    /\ UNCHANGED <<mesh, a, mdl>>

NextActive ==
    \/ Fresh /\ \E nCopt \in NCOpts :
                  \E ind \in IndSpecs(OrElse(nCopt, MeshNC(mesh))),
                     val \in ValSpecs(OrElse(nCopt, MeshNC(mesh))) :
                       NewActiveCells(ind, val, nCopt)
    \/ Built /\ \E m \in Vectors(nP(a)) : ActiveTransform(m)

SpecActive == Init /\ [][NextActive]_vars

\* cell k is active under the specification given to the constructor
SpecifiedActive(k) ==
    IF out.ind.dtype = "bool" THEN out.ind.data[k]
    ELSE k \in {out.ind.data[q] : q \in 1..Len(out.ind.data)}
\* the fill-in value supplied for cell k
SuppliedFill(k) ==
    IF out.val.isScalar THEN out.val.data[1] ELSE out.val.data[k]
\* the number of active cells up to cell k
ActiveRank(k) == Cardinality({i \in 1..k : SpecifiedActive(i)})

\* C8: transform(m) is the supplied fill-in value at every inactive cell,
\* whatever m, and m[j] at the j-th active cell, whatever fill-in value was
\* supplied for that cell; nP is the number of active cells.
C8_FillAndScatter ==
    out.op = "activeTransform" =>
        /\ Len(out.arg) = ActiveRank(Len(out.vec))
        /\ \A k \in 1..Len(out.vec) :
              out.vec[k] = IF SpecifiedActive(k) THEN out.arg[ActiveRank(k)]
                           ELSE SuppliedFill(k)

\* an active cell for which a non-zero fill-in value was supplied, after an
\* inactive one
C8_Witness ==
    /\ out.op = "activeTransform"
    /\ \E i, k \in 1..Len(out.vec) :
          /\ i < k
          /\ ~SpecifiedActive(i) /\ SuppliedFill(i) # Real(0)
          /\ SpecifiedActive(k) /\ SuppliedFill(k) # Real(0)
          /\ out.vec[k] # SuppliedFill(k)

-----------------------------------------------------------------------------
(* ComplexMap under every nP (C6).                                         *)

\* the nP arguments: None, and the integers up to twice the cells and two
NPOpts == {<<>>} \cup {<<n>> : n \in 0..(2 * MaxCells + 2)}

\* a = ComplexMap(mesh, nP)
NewComplexMap(nPopt) ==
    /\ Fresh
    /\ a' = IF ComplexMapInitRaises(mesh, nPopt) THEN a
            ELSE ComplexMapInit(mesh, nPopt)
    /\ out' = [OutBlank EXCEPT
                 !.op = "construct", !.nPopt = nPopt, !.map = a',
                 !.raises = IF ComplexMapInitRaises(mesh, nPopt)
                            THEN "AssertionError" ELSE ""]
    /\ UNCHANGED <<mesh, mdl>>

\* a.transform(m) for a model of length nP
ComplexTransformAct(m) ==
    /\ Built
    /\ out.raises = ""
    /\ out' = [OutBlank EXCEPT
                 !.op = "complexTransform", !.left = a, !.arg = m,
                 !.raises = IF ComplexTransformRaises(a, m)
                            THEN "ValueError" ELSE "",
                 !.vec = IF ComplexTransformRaises(a, m) THEN <<>>
                         ELSE ComplexTransform(a, m)]
    /\ UNCHANGED <<mesh, a, mdl>>

NextComplex ==
    \/ Fresh /\ \E nPopt \in NPOpts : NewComplexMap(nPopt)
    \/ (Built /\ out.raises = "") /\ \E m \in Vectors(nP(a)) : ComplexTransformAct(m)

SpecComplex == Init /\ [][NextComplex]_vars

\* C6: an odd nP is rejected at construction; for an accepted nP and a model
\* m of length nP, transform(m) has nP/2 entries, the k-th being
\* m[k] + i m[k + nP/2].
C6_Pack ==
    /\ (out.op = "construct" /\ Given(out.nPopt) /\ out.nPopt[1] % 2 = 1)
         => out.raises = "AssertionError"
    /\ out.op = "complexTransform" =>
         LET half == nP(out.left) \div 2
         IN  /\ out.raises = ""
             /\ Len(out.vec) = half
             /\ \A k \in 1..half :
                   out.vec[k] = <<Re(out.arg[k]), Re(out.arg[k + half])>>

-----------------------------------------------------------------------------
(* Model: the vector bound to its mapping (C4, C5).                        *)

\* a faulty variant: the size of the array is not compared with mapping.nP
ModelNewRaisesNoSize(input_array, mapping) ==
    IF ~IsIdentityMap(mapping) THEN "AssertionError"
    ELSE IF NPRaises(mapping) THEN "IndexError"
    ELSE ""

\* Model.__new__: what it raises, "" if nothing
ModelNewRaises(input_array, mapping) ==
    IF ~IsIdentityMap(mapping) THEN "AssertionError"
    ELSE IF NPRaises(mapping) THEN "IndexError"
    ELSE IF Len(input_array) # nP(mapping) THEN "Exception"
    ELSE ""

\* Model.__new__: the instance, no _transform and no _transformDeriv yet
ModelNew(input_array, mapping) ==
    [NoModel EXCEPT !.exists = TRUE, !.vec = input_array, !.mapping = mapping]

\* Model.__array_finalize__: a view of obj is a new instance that takes
\* obj's _mapping and nothing else
ModelArrayFinalize(obj) == ModelNew(obj.vec, obj.mapping)

\* a faulty variant: the value is computed and returned but not kept
ModelTransformRecomputes(md) ==
    [md EXCEPT !.tcalls = @ + 1, !.treads = @ + 1]

\* Model.transform: the instance after the read; the value returned is its
\* _transform (tcache); tcalls counts the calls of mapping.transform
ModelTransform(md) ==
    IF md.tcache = <<>>
    THEN [md EXCEPT !.tcache = <<Transform(md.mapping, md.vec)>>,
                    !.tcalls = @ + 1, !.treads = @ + 1]
    ELSE [md EXCEPT !.treads = @ + 1]

\* Model.transform: the value the read returns
ModelTransformReturn(md) ==
    IF md.tcache = <<>> THEN Transform(md.mapping, md.vec) ELSE md.tcache[1]

\* Model.transformDeriv: likewise with _transformDeriv (dcache)
ModelTransformDeriv(md) ==
    IF md.dcache = <<>>
    THEN [md EXCEPT !.dcache = <<TransformDeriv(md.mapping, md.vec)>>,
                    !.dcalls = @ + 1, !.dreads = @ + 1]
    ELSE [md EXCEPT !.dreads = @ + 1]

\* Model.transformDeriv: the value the read returns
ModelTransformDerivReturn(md) ==
    IF md.dcache = <<>> THEN TransformDeriv(md.mapping, md.vec)
    ELSE md.dcache[1]

\* what is given as mapping: maps, chains, an empty ComboMap, None, and a
\* NonLinearMap (which has an nP and is no IdentityMap)
Mappings(msh) ==
    ChainMaps(msh)
    \cup {ComplexMapInit(msh, <<>>),
          ComboMapInit(msh, <<>>),
          ComboMapInit(msh, <<ExpMapInit(msh), Vertical1DMapInit(msh)>>),
          NoMap, NonLinearMapInit(msh)}

\* the arrays given: every length up to one more than the largest nP
Arrays == UNION {Vectors(n) : n \in 0..(2 * MaxCells + 1)}

\* mdl = Model(input_array, mapping)
NewModel(input_array, mapping) ==
    /\ Fresh
    /\ mdl' = IF ModelNewRaises(input_array, mapping) = ""
              THEN ModelNew(input_array, mapping) ELSE mdl
    /\ out' = [OutBlank EXCEPT !.op = "newModel", !.left = mapping,
                               !.arg = input_array,
                               !.raises = ModelNewRaises(input_array, mapping)]
    /\ UNCHANGED <<mesh, a>>

\* mdl.transform
ReadTransform ==
    /\ mdl.exists /\ mdl.treads < MaxReads
    /\ Runs(mdl.mapping, mdl.vec)
    /\ mdl' = ModelTransform(mdl)
    /\ out' = [OutBlank EXCEPT !.op = "readTransform",
                               !.vec = ModelTransformReturn(mdl)]
    /\ UNCHANGED <<mesh, a>>

\* mdl.transformDeriv
ReadTransformDeriv ==
    /\ mdl.exists /\ mdl.dreads < MaxReads
    /\ Runs(mdl.mapping, mdl.vec)
    /\ mdl' = ModelTransformDeriv(mdl)
    /\ out' = [OutBlank EXCEPT !.op = "readTransformDeriv",
                               !.mat = ModelTransformDerivReturn(mdl)]
    /\ UNCHANGED <<mesh, a>>

\* mdl = mdl.view(Model): a new instance through __array_finalize__
ViewModel ==
    /\ mdl.exists /\ (mdl.treads > 0 \/ mdl.dreads > 0)
    /\ mdl' = ModelArrayFinalize(mdl)
    /\ out' = [OutBlank EXCEPT !.op = "view"]
    /\ UNCHANGED <<mesh, a>>

NextModel ==
    \/ Fresh /\ \E input_array \in Arrays, mapping \in Mappings(mesh) :
                  NewModel(input_array, mapping)
    \/ ReadTransform
    \/ ReadTransformDeriv
    \/ ViewModel

SpecModel == Init /\ [][NextModel]_vars

\* C4: constructing a Model fails if the mapping is not a map or the
\* array's length is not mapping.nP, before mapping.transform or
\* mapping.transformDeriv is called; a Model that is constructed has length
\* mapping.nP.
C4_ConstructionChecked ==
    /\ out.op = "newModel" =>
         /\ ~IsIdentityMap(out.left) => out.raises # ""
         /\ (IsIdentityMap(out.left) /\ ~NPRaises(out.left)
               /\ Len(out.arg) # nP(out.left)) => out.raises # ""
         /\ out.raises # "" => ~mdl.exists
         /\ out.raises = "" => mdl.exists /\ mdl.vec = out.arg
                                 /\ mdl.mapping = out.left
         /\ mdl.tcalls = 0 /\ mdl.dcalls = 0
    /\ mdl.exists => /\ IsIdentityMap(mdl.mapping)
                     /\ Len(mdl.vec) = nP(mdl.mapping)

C4_Witness ==
    /\ out.op = "newModel" /\ out.raises = "Exception"
    /\ IsComboMap(out.left) /\ Len(out.arg) = nP(out.left) + 1
    /\ ~mdl.exists

\* C5: for one Model instance, mapping.transform and mapping.transformDeriv
\* are each called at most once, every read of transform returns
\* mapping.transform(vector) and every read of transformDeriv returns
\* mapping.transformDeriv(vector), and each cache is filled by the reads of
\* its own property only.
C5_CachedOnce ==
    mdl.exists =>
        /\ mdl.tcalls = (IF mdl.treads > 0 THEN 1 ELSE 0)
        /\ mdl.dcalls = (IF mdl.dreads > 0 THEN 1 ELSE 0)
        /\ mdl.tcache = (IF mdl.treads > 0
                         THEN <<Transform(mdl.mapping, mdl.vec)>> ELSE <<>>)
        /\ mdl.dcache = (IF mdl.dreads > 0
                         THEN <<TransformDeriv(mdl.mapping, mdl.vec)>> ELSE <<>>)
        /\ out.op = "readTransform"
             => out.vec = Transform(mdl.mapping, mdl.vec)
        /\ out.op = "readTransformDeriv"
             => out.mat = TransformDeriv(mdl.mapping, mdl.vec)

\* the second read of transform, transformDeriv never read
C5_Witness ==
    /\ mdl.exists /\ out.op = "readTransform"
    /\ mdl.treads = 2 /\ mdl.tcalls = 1
    /\ mdl.dreads = 0 /\ mdl.dcache = <<>>
    /\ IsComboMap(mdl.mapping)
    /\ out.vec # mdl.vec

====
